---- MODULE Spec2Model ----
(***************************************************************************)
(* Model of flask/module.py: the Module container and its deferred         *)
(* registration list.  A Module records one callback per declaration       *)
(* (route, add_url_rule, the request hooks, app_errorhandler); the host    *)
(* application replays the callbacks, in order, when the module is         *)
(* registered.                                                             *)
(*                                                                         *)
(* Python values are modelled as follows.                                  *)
(*   str        a sequence of tokens, "/" and "." being tokens of their    *)
(*              own: '/admin' is <<"/", "admin">>, 'p.a' is <<"p",".","a">>*)
(*   None       the one-token sequence <<"None">> (no str of the model     *)
(*              holds that token)                                          *)
(*   dict       a set of <<key, value>> pairs with distinct keys           *)
(*   list       a sequence                                                 *)
(*   function   a record [id, name]: its identity and its __name__         *)
(***************************************************************************)
EXTENDS Integers, Sequences, FiniteSets, TLC

VARIABLES
    modules,     \* module id -> Module object, for the modules constructed
    apps,        \* application id -> host application (Flask) object
    declared,    \* history: module id -> the declaration calls made, in order
    registered,  \* history: module id -> the applications it was registered
                 \* on, one entry per register_module call, in order
    outcome      \* history: the last call, its arguments and how it ended

vars == <<modules, apps, declared, registered, outcome>>

---------------------------------------------------------------------------
(* Python values *)

None == <<"None">>

\* Python truthiness of an optional str: None and '' are false.
Truthy(s) == s # None /\ s # <<>>

\* c in s
Contains(s, c) == \E i \in 1..Len(s) : s[i] = c

\* s.rfind(c), 1-based; 0 when c does not occur
LastIndex(s, c) ==
    LET I == {i \in 1..Len(s) : s[i] = c}
    IN IF I = {} THEN 0 ELSE CHOOSE i \in I : \A j \in I : j <= i

\* s.rsplit(c, 1): the list of parts
rsplit(s, c) ==
    LET k == LastIndex(s, c)
    IN IF k = 0 THEN <<s>>
       ELSE <<SubSeq(s, 1, k - 1), SubSeq(s, k + 1, Len(s))>>

\* the path taken whole where its basename is meant
os_path_basename_whole(p) == p

\* os.path.basename(p): what follows the last "/"
os_path_basename(p) == SubSeq(p, LastIndex(p, "/") + 1, Len(p))

\* os.path.join(a, b)
os_path_join(a, b) ==
    IF b # <<>> /\ b[1] = "/" THEN b
    ELSE IF a = <<>> \/ a[Len(a)] = "/" THEN a \o b
    ELSE a \o <<"/">> \o b

\* dict operations
Keys(d) == {p[1] : p \in d}
Get(d, k) == (CHOOSE p \in d : p[1] = k)[2]
DictSet(d, k, v) == {p \in d : p[1] # k} \cup {<<k, v>>}
\* d.setdefault(k, v), as the dict it leaves
setdefault(d, k, v) == IF k \in Keys(d) THEN d ELSE d \cup {<<k, v>>}
\* d.setdefault(k, []).append(f), as the dict it leaves
setdefault_append(d, k, f) ==
    IF k \in Keys(d) THEN DictSet(d, k, Append(Get(d, k), f))
    ELSE d \cup {<<k, <<f>>>>}

\* a function object
Func(id, nm) == [id |-> id, name |-> nm]
\* None where a function is expected
NoneFunc == [id |-> "None", name |-> <<>>]

\* '%s.%s' % (a, b)
Dotted(a, b) == a \o <<".">> \o b

---------------------------------------------------------------------------
(* The host application *)

AppIds == {"app1", "app2"}
ModIds == {"m1", "m2"}

\* the bound method obj.send_static_file of an application or a module
send_static_file(id) == Func(id, <<"send_static_file">>)

\* Flask(...): the application object as constructed, with its own static
\* rule, static view and default template context processor.
Flask(a) ==
    [ modules |-> {},
      static_path |-> <<"/", "app", "/", "static">>,
      url_map |-> << [rule |-> <<"/", "static", "/", "<path:filename>">>,
                      endpoint |-> <<"static">>,
                      subdomain |-> None] >>,
      view_functions |-> {<<(<<"static">>), send_static_file(a)>>},
      before_request_funcs |-> {},
      after_request_funcs |-> {},
      template_context_processors |->
          {<<None, <<Func("_default_template_ctx_processor",
                          <<"_default_template_ctx_processor">>)>>>>},
      error_handlers |-> {} ]

\* _endpoint_from_view_func(view_func): the function's __name__
_endpoint_from_view_func(view_func) == view_func.name

\* Flask.add_url_rule(rule, endpoint, view_func, **options), as the
\* application it leaves: the rule joins the URL map and the view function,
\* when given, is stored under the endpoint.
Flask_add_url_rule(app, rule, endpoint, view_func, options) ==
    [app EXCEPT
       !.url_map = Append(@, [rule |-> rule, endpoint |-> endpoint,
                              subdomain |-> Get(options, "subdomain")]),
       !.view_functions =
           IF view_func = NoneFunc THEN @ ELSE DictSet(@, endpoint, view_func)]

\* Flask.errorhandler(code)(f), as the application it leaves
Flask_errorhandler(app, code, f) ==
    [app EXCEPT !.error_handlers = DictSet(@, code, f)]

---------------------------------------------------------------------------
(* Recorded callbacks *)

\* A recorded callback: the closure's kind and the variables it captured.
Callback(kind, rule, endpoint, view_func, options, code) ==
    [rule |-> rule, endpoint |-> endpoint, view_func |-> view_func,
     options |-> options, code |-> code, kind |-> kind]

\* A declaration call, as the history keeps it.
Call(op, rule, endpoint, view_func, options, code) ==
    [rule |-> rule, endpoint |-> endpoint, view_func |-> view_func,
     options |-> options, code |-> code, op |-> op]

\* What a callback leaves when called with a registration state: the
\* application, the callback's own captured options, the exception it raised
\* ("" when none) and whether it emitted the deprecation warning.
Result(app, options, raised, warned) ==
    [app |-> app, options |-> options, raised |-> raised, warned |-> warned]

_ModuleSetupState(app, url_prefix, subdomain) ==
    [app |-> app, subdomain |-> subdomain, url_prefix |-> url_prefix]

\* _register warning about every detected static folder, before it compares
\* the folder with the application's own
_register_warn_first(module, state) ==
    LET app1 == [state.app EXCEPT
                   !.modules = DictSet(@, module.name, module.id)]
        path == module.static_path
        compat == module._backwards_compat_static_path
    IN IF compat /\ path = app1.static_path
       THEN Result(app1, {}, "", TRUE)
       ELSE IF path = None
       THEN Result(app1, {}, "", compat)
       ELSE LET base == <<"/">> \o os_path_basename(path)
                full == IF Truthy(state.url_prefix)
                        THEN state.url_prefix \o base ELSE base
                app2 == Flask_add_url_rule(app1,
                            full \o <<"/", "<path:filename>">>,
                            Dotted(module.name, <<"static">>),
                            send_static_file(module.id),
                            {<<"subdomain", module.subdomain>>})
                app3 == IF ~Truthy(module.url_prefix)
                           /\ ~Truthy(module.subdomain)
                        THEN [app2 EXCEPT
                                !.static_path = None,
                                !.view_functions =
                                    DictSet(@, <<"static">>,
                                            send_static_file(module.id))]
                        ELSE app2
            IN Result(app3, {}, "", compat)

\* _register_module(module)._register(state)
_register(module, state) ==
    LET app1 == [state.app EXCEPT
                   !.modules = DictSet(@, module.name, module.id)]
        path == module.static_path
        compat == module._backwards_compat_static_path
    IN IF compat /\ path = app1.static_path
       THEN Result(app1, {}, "", FALSE)
       ELSE IF path = None
       THEN Result(app1, {}, "", compat)
       ELSE LET base == <<"/">> \o os_path_basename(path)
                full == IF Truthy(state.url_prefix)
                        THEN state.url_prefix \o base ELSE base
                app2 == Flask_add_url_rule(app1,
                            full \o <<"/", "<path:filename>">>,
                            Dotted(module.name, <<"static">>),
                            send_static_file(module.id),
                            {<<"subdomain", module.subdomain>>})
                app3 == IF ~Truthy(module.url_prefix)
                           /\ ~Truthy(module.subdomain)
                        THEN [app2 EXCEPT
                                !.static_path = None,
                                !.view_functions =
                                    DictSet(@, <<"static">>,
                                            send_static_file(module.id))]
                        ELSE app2
            IN Result(app3, {}, "", compat)

\* register_rule registering the endpoint as asked for, without the module's
\* name in front
register_rule_unprefixed(module, cb, state) ==
    LET the_rule == IF Truthy(state.url_prefix)
                    THEN state.url_prefix \o cb.rule ELSE cb.rule
        options == setdefault(cb.options, "subdomain", state.subdomain)
    IN IF cb.endpoint = None /\ cb.view_func = NoneFunc
       THEN Result(state.app, options, "AssertionError", FALSE)
       ELSE Result(Flask_add_url_rule(state.app, the_rule,
                       IF cb.endpoint = None
                       THEN _endpoint_from_view_func(cb.view_func)
                       ELSE cb.endpoint,
                       cb.view_func, options),
                   options, "", FALSE)

\* register_rule prefixing the rule with the module's own url_prefix, whatever
\* prefix the registration resolved
register_rule_module_prefix(module, cb, state) ==
    LET the_rule == IF Truthy(module.url_prefix)
                    THEN module.url_prefix \o cb.rule ELSE cb.rule
        options == setdefault(cb.options, "subdomain", state.subdomain)
    IN IF cb.endpoint = None /\ cb.view_func = NoneFunc
       THEN Result(state.app, options, "AssertionError", FALSE)
       ELSE Result(Flask_add_url_rule(state.app, the_rule,
                       Dotted(module.name,
                              IF cb.endpoint = None
                              THEN _endpoint_from_view_func(cb.view_func)
                              ELSE cb.endpoint),
                       cb.view_func, options),
                   options, "", FALSE)

\* register_rule as a one-shot callback: a closure that already ran (its
\* options carry the subdomain a replay left in them) does nothing
register_rule_once(module, cb, state) ==
    IF "subdomain" \in Keys(cb.options)
    THEN Result(state.app, cb.options, "", FALSE)
    ELSE LET the_rule == IF Truthy(state.url_prefix)
                         THEN state.url_prefix \o cb.rule ELSE cb.rule
             options == setdefault(cb.options, "subdomain", state.subdomain)
         IN IF cb.endpoint = None /\ cb.view_func = NoneFunc
            THEN Result(state.app, options, "AssertionError", FALSE)
            ELSE Result(Flask_add_url_rule(state.app, the_rule,
                            Dotted(module.name,
                                   IF cb.endpoint = None
                                   THEN _endpoint_from_view_func(cb.view_func)
                                   ELSE cb.endpoint),
                            cb.view_func, options),
                        options, "", FALSE)

\* register_rule swallowing the exception of a rule it cannot name
register_rule_swallow(module, cb, state) ==
    LET the_rule == IF Truthy(state.url_prefix)
                    THEN state.url_prefix \o cb.rule ELSE cb.rule
        options == setdefault(cb.options, "subdomain", state.subdomain)
    IN IF cb.endpoint = None /\ cb.view_func = NoneFunc
       THEN Result(state.app, options, "", FALSE)
       ELSE Result(Flask_add_url_rule(state.app, the_rule,
                       Dotted(module.name,
                              IF cb.endpoint = None
                              THEN _endpoint_from_view_func(cb.view_func)
                              ELSE cb.endpoint),
                       cb.view_func, options),
                   options, "", FALSE)

\* register_rule naming every rule after its view function, an explicit
\* endpoint being ignored
register_rule_by_func(module, cb, state) ==
    LET the_rule == IF Truthy(state.url_prefix)
                    THEN state.url_prefix \o cb.rule ELSE cb.rule
        options == setdefault(cb.options, "subdomain", state.subdomain)
    IN IF cb.endpoint = None /\ cb.view_func = NoneFunc
       THEN Result(state.app, options, "AssertionError", FALSE)
       ELSE Result(Flask_add_url_rule(state.app, the_rule,
                       Dotted(module.name,
                              IF cb.view_func # NoneFunc
                              THEN _endpoint_from_view_func(cb.view_func)
                              ELSE cb.endpoint),
                       cb.view_func, options),
                   options, "", FALSE)

\* Module.add_url_rule.register_rule(state), for the closure cb of module
register_rule(module, cb, state) ==
    LET the_rule == IF Truthy(state.url_prefix)
                    THEN state.url_prefix \o cb.rule ELSE cb.rule
        options == setdefault(cb.options, "subdomain", state.subdomain)
    IN IF cb.endpoint = None /\ cb.view_func = NoneFunc
       THEN \* _endpoint_from_view_func(None) raises
            Result(state.app, options, "AssertionError", FALSE)
       ELSE LET the_endpoint ==
                    IF cb.endpoint = None
                    THEN _endpoint_from_view_func(cb.view_func)
                    ELSE cb.endpoint
            IN Result(Flask_add_url_rule(state.app, the_rule,
                          Dotted(module.name, the_endpoint),
                          cb.view_func, options),
                      options, "", FALSE)

\* the lambdas recorded by the six request-hook declarations
before_request_cb(module, cb, state) ==
    Result([state.app EXCEPT !.before_request_funcs =
                setdefault_append(@, module.name, cb.view_func)],
           cb.options, "", FALSE)

before_app_request_cb(module, cb, state) ==
    Result([state.app EXCEPT !.before_request_funcs =
                setdefault_append(@, None, cb.view_func)],
           cb.options, "", FALSE)

after_request_cb(module, cb, state) ==
    Result([state.app EXCEPT !.after_request_funcs =
                setdefault_append(@, module.name, cb.view_func)],
           cb.options, "", FALSE)

after_app_request_cb(module, cb, state) ==
    Result([state.app EXCEPT !.after_request_funcs =
                setdefault_append(@, None, cb.view_func)],
           cb.options, "", FALSE)

\* the context_processor lambda filing the function under None, the key of
\* the application-wide processors
context_processor_global(module, cb, state) ==
    Result([state.app EXCEPT !.template_context_processors =
                setdefault_append(@, None, cb.view_func)],
           cb.options, "", FALSE)

context_processor_cb(module, cb, state) ==
    Result([state.app EXCEPT !.template_context_processors =
                setdefault_append(@, module.name, cb.view_func)],
           cb.options, "", FALSE)

app_context_processor_cb(module, cb, state) ==
    Result([state.app EXCEPT !.template_context_processors =
                setdefault_append(@, None, cb.view_func)],
           cb.options, "", FALSE)

\* the lambda recorded by app_errorhandler(code)
app_errorhandler_cb(module, cb, state) ==
    Result(Flask_errorhandler(state.app, cb.code, cb.view_func),
           cb.options, "", FALSE)

\* func(state) for a recorded callback
CallCallback(module, cb, state) ==
    CASE cb.kind = "_register" -> _register(module, state)
      [] cb.kind = "register_rule" -> register_rule(module, cb, state)
      [] cb.kind = "before_request" -> before_request_cb(module, cb, state)
      [] cb.kind = "before_app_request" ->
             before_app_request_cb(module, cb, state)
      [] cb.kind = "after_request" -> after_request_cb(module, cb, state)
      [] cb.kind = "after_app_request" ->
             after_app_request_cb(module, cb, state)
      [] cb.kind = "context_processor" ->
             context_processor_cb(module, cb, state)
      [] cb.kind = "app_context_processor" ->
             app_context_processor_cb(module, cb, state)
      [] cb.kind = "app_errorhandler" -> app_errorhandler_cb(module, cb, state)

---------------------------------------------------------------------------
(* The Module object *)

\* _PackageBoundObject.__init__(import_name, static_path); root_path is the
\* directory the import name resolves to.
_PackageBoundObject(import_name, static_path, root_path) ==
    [static_path |-> static_path, import_name |-> import_name,
     root_path |-> root_path]

\* Module.__init__ raises: no name given and no "." in the import name.
Module__init__raises(import_name, name) ==
    name = None /\ ~Contains(import_name, ".")

\* the name taken after the first "." instead of the last:
\* import_name.split('.', 1)[1]
Module__init__name_first(import_name, name) ==
    IF name = None
    THEN LET I == {i \in 1..Len(import_name) : import_name[i] = "."}
             k == CHOOSE i \in I : \A j \in I : i <= j
         IN SubSeq(import_name, k + 1, Len(import_name))
    ELSE name

\* Module.__init__: the name the module gets
Module__init__name(import_name, name) ==
    IF name = None THEN rsplit(import_name, ".")[2] ELSE name

\* _register_module(module): the callback recorded first
_register_module(id) == Callback("_register", <<>>, None, NoneFunc, {}, 0)

\* Module.__init__: the object constructed.  isdir is os.path.isdir of
\* <root_path>/static.
Module__init__(id, import_name, name, url_prefix, static_path, subdomain, root_path, isdir) ==
    LET base == _PackageBoundObject(import_name, static_path, root_path)
        compat == base.static_path = None /\ isdir
    IN [id |-> id,
        name |-> Module__init__name(import_name, name),
        static_path |-> IF compat
                        THEN os_path_join(base.root_path, <<"static">>)
                        ELSE base.static_path,
        subdomain |-> subdomain,
        url_prefix |-> url_prefix,
        _backwards_compat_static_path |-> compat,
        import_name |-> base.import_name,
        root_path |-> base.root_path,
        _register_events |-> <<_register_module(id)>>]

\* _record starting the list over: self._register_events = [func]
_record_reset(module, func) ==
    [module EXCEPT !._register_events = <<func>>]

\* _record with the callback put first: self._register_events.insert(0, func)
_record_front(module, func) ==
    [module EXCEPT !._register_events = <<func>> \o @]

\* Module._record(func), as the module it leaves
_record(module, func) ==
    [module EXCEPT !._register_events = Append(@, func)]

---------------------------------------------------------------------------
(* Bounds *)

\* declarations made on one module
MaxDecls == 2
\* register_module calls, all modules together
MaxRegs == 2

RECURSIVE TotalLen(_, _)
TotalLen(f, S) ==
    IF S = {} THEN 0
    ELSE LET x == CHOOSE y \in S : TRUE IN Len(f[x]) + TotalLen(f, S \ {x})

---------------------------------------------------------------------------
(* Actions *)

\* how a call that is no registration ended; args are its arguments, where
\* the history needs them
Ended(op, m, raised, args) ==
    [app |-> "", options |-> args, op |-> op, raised |-> raised,
     warned |-> FALSE, mod |-> m, before |-> Flask(""),
     events_before |-> <<>>]

\* the arguments of a constructor call and the file system it found, as the
\* history keeps them
ModuleArgs(import_name, name, static_path, root_path, isdir) ==
    {<<"import_name", import_name>>, <<"name", name>>,
     <<"static_path", static_path>>, <<"root_path", root_path>>,
     <<"isdir", IF isdir THEN <<"True">> ELSE <<"False">>>>}

\* module = Module(import_name, name, url_prefix, static_path, subdomain)
NewModule(m, import_name, name, url_prefix, static_path, subdomain, root_path, isdir) ==
    /\ m \notin DOMAIN modules
    /\ IF Module__init__raises(import_name, name)
       THEN /\ outcome' = Ended("Module", m, "AssertionError",
                                 ModuleArgs(import_name, name, static_path,
                                            root_path, isdir))
            /\ UNCHANGED <<modules, apps, declared, registered>>
       ELSE /\ modules' = (m :> Module__init__(m, import_name, name,
                                    url_prefix, static_path, subdomain,
                                    root_path, isdir)) @@ modules
            /\ outcome' = Ended("Module", m, "",
                                 ModuleArgs(import_name, name, static_path,
                                            root_path, isdir))
            /\ UNCHANGED <<apps, declared, registered>>

\* a declaration: the module records the callback, nothing else changes
Declare(m, cb, call) ==
    /\ m \in DOMAIN modules
    /\ Len(declared[m]) < MaxDecls
    /\ modules' = [modules EXCEPT ![m] = _record(@, cb)]
    /\ declared' = [declared EXCEPT ![m] = Append(@, call)]
    /\ outcome' = Ended(call.op, m, "", {})
    /\ UNCHANGED <<apps, registered>>

\* module.add_url_rule(rule, endpoint, view_func, **options)
add_url_rule(m, rule, endpoint, view_func, options) ==
    Declare(m, Callback("register_rule", rule, endpoint, view_func, options, 0),
            Call("add_url_rule", rule, endpoint, view_func, options, 0))

\* module.route(rule, **options)(f)
route(m, rule, f, options) ==
    Declare(m, Callback("register_rule", rule, f.name, f, options, 0),
            Call("route", rule, None, f, options, 0))

\* before_request applying the hook to the application at declaration time,
\* as Flask.before_request does, besides recording it
before_request_eager(m, f) ==
    /\ m \in DOMAIN modules
    /\ Len(declared[m]) < MaxDecls
    /\ modules' = [modules EXCEPT ![m] =
            _record(@, Callback("before_request", <<>>, None, f, {}, 0))]
    /\ declared' = [declared EXCEPT ![m] =
            Append(@, Call("before_request", <<>>, None, f, {}, 0))]
    /\ apps' = [apps EXCEPT !["app1"].before_request_funcs =
            setdefault_append(@, modules[m].name, f)]
    /\ outcome' = Ended("before_request", m, "", {})
    /\ UNCHANGED registered

\* module.before_request(f)
before_request(m, f) ==
    Declare(m, Callback("before_request", <<>>, None, f, {}, 0),
            Call("before_request", <<>>, None, f, {}, 0))

\* module.before_app_request(f)
before_app_request(m, f) ==
    Declare(m, Callback("before_app_request", <<>>, None, f, {}, 0),
            Call("before_app_request", <<>>, None, f, {}, 0))

\* module.after_request(f)
after_request(m, f) ==
    Declare(m, Callback("after_request", <<>>, None, f, {}, 0),
            Call("after_request", <<>>, None, f, {}, 0))

\* module.after_app_request(f)
after_app_request(m, f) ==
    Declare(m, Callback("after_app_request", <<>>, None, f, {}, 0),
            Call("after_app_request", <<>>, None, f, {}, 0))

\* module.context_processor(f)
context_processor(m, f) ==
    Declare(m, Callback("context_processor", <<>>, None, f, {}, 0),
            Call("context_processor", <<>>, None, f, {}, 0))

\* module.app_context_processor(f)
app_context_processor(m, f) ==
    Declare(m, Callback("app_context_processor", <<>>, None, f, {}, 0),
            Call("app_context_processor", <<>>, None, f, {}, 0))

\* module.app_errorhandler(code)(f)
app_errorhandler(m, code, f) ==
    Declare(m, Callback("app_errorhandler", <<>>, None, f, {}, code),
            Call("app_errorhandler", <<>>, None, f, {}, code))

\* for func in module._register_events: func(state), from the i-th callback
\* on, stopping at the first exception.  r carries the application, the
\* callbacks (a register_rule closure's options change when it runs), the
\* exception raised and whether the deprecation warning was emitted.
RECURSIVE Replay(_, _, _, _, _)
Replay(module, url_prefix, subdomain, i, r) ==
    IF i > Len(r.events) \/ r.raised # "" THEN r
    ELSE LET cb == r.events[i]
             res == CallCallback(module, cb,
                        _ModuleSetupState(r.app, url_prefix, subdomain))
         IN Replay(module, url_prefix, subdomain, i + 1,
                [app |-> res.app,
                 raised |-> res.raised,
                 warned |-> r.warned \/ res.warned,
                 events |-> [r.events EXCEPT ![i].options = res.options]])

\* Flask.register_module(module, **options), as what the replay leaves
Flask_register_module(app, module, options) ==
    LET opts == setdefault(setdefault(options, "url_prefix", module.url_prefix),
                           "subdomain", module.subdomain)
    IN Replay(module, Get(opts, "url_prefix"), Get(opts, "subdomain"), 1,
              [app |-> app, raised |-> "", warned |-> FALSE,
               events |-> module._register_events])

\* app.register_module(module, **options)
register_module(a, m, options) ==
    /\ m \in DOMAIN modules
    /\ TotalLen(registered, ModIds) < MaxRegs
    /\ LET r == Flask_register_module(apps[a], modules[m], options)
       IN /\ apps' = [apps EXCEPT ![a] = r.app]
          /\ modules' = [modules EXCEPT ![m]._register_events = r.events]
          /\ outcome' = [app |-> a, options |-> options,
                         op |-> "register_module", raised |-> r.raised,
                         warned |-> r.warned, mod |-> m, before |-> apps[a],
                         events_before |-> modules[m]._register_events]
    /\ registered' = [registered EXCEPT ![m] = Append(@, a)]
    /\ UNCHANGED declared

---------------------------------------------------------------------------
(* Inputs *)

index1 == Func("f1", <<"index">>)
index2 == Func("f2", <<"index">>)
login == Func("f3", <<"login">>)

\* keyword arguments of register_module: url_prefix absent, None or given,
\* subdomain absent or given
RegisterOptions ==
    {p \cup q : p \in {{}, {<<"url_prefix", None>>},
                         {<<"url_prefix", <<"/", "y">>>>}},
                q \in {{}, {<<"subdomain", <<"u">>>>}}}

Init ==
    /\ modules = [m \in {} |-> 0]
    /\ apps = [a \in AppIds |-> Flask(a)]
    /\ declared = [m \in ModIds |-> <<>>]
    /\ registered = [m \in ModIds |-> <<>>]
    /\ outcome = Ended("init", "", "", {})

\* One module on one application: every kind of declaration, registration
\* without options.
Next ==
    \/ \E import_name \in {<<"p", ".", "a">>, <<"b">>},
          name \in {None, <<"b">>} :
          NewModule("m1", import_name, name, None, None, None,
                    <<"/", "app", "/", "sub">>, FALSE)
    \/ \E endpoint \in {None, <<"e">>}, view_func \in {NoneFunc, index1} :
          add_url_rule("m1", <<"/", "i">>, endpoint, view_func, {})
    \/ \E f \in {index1, login} : route("m1", <<"/", "r">>, f, {})
    \/ \E f \in {index1, login} : before_request("m1", f)
    \/ \E f \in {index1, login} : before_app_request("m1", f)
    \/ \E f \in {index1, login} : after_request("m1", f)
    \/ \E f \in {index1, login} : after_app_request("m1", f)
    \/ \E f \in {index1, login} : context_processor("m1", f)
    \/ \E f \in {index1, login} : app_context_processor("m1", f)
    \/ \E f \in {index1, login} : app_errorhandler("m1", 404, f)
    \/ register_module("app1", "m1", {})

Spec == Init /\ [][Next]_vars

\* Two modules on one application, each with handlers of its own, one of
\* them named like a handler of the other module.
NextTwo ==
    \/ \E m \in ModIds, name \in {None, <<"b">>} :
          NewModule(m, <<"p", ".", "a">>, name, None, None, None,
                    <<"/", "app", "/", "sub">>, FALSE)
    \/ \E f \in {index1, login} : route("m1", <<"/", "r">>, f, {})
    \/ \E f \in {index2, login} : route("m2", <<"/", "s">>, f, {})
    \/ \E m \in ModIds : register_module("app1", m, {})

SpecTwo == Init /\ [][NextTwo]_vars

\* Construction alone, over import names with no, one and several dots, with
\* and without an explicit name.
NextCtor ==
    \E m \in ModIds,
       import_name \in {<<"a">>, <<"p", ".", "a">>, <<"p", ".", "q", ".", "a">>,
                        <<"a", ".">>, <<>>},
       name \in {None, <<"n">>, <<"x", ".", "y">>},
       url_prefix \in {None, <<"/", "x">>},
       static_path \in {None, <<"static">>},
       isdir \in BOOLEAN :
        NewModule(m, import_name, name, url_prefix, static_path, None,
                  <<"/", "app", "/", "sub">>, isdir)

SpecCtor == Init /\ [][NextCtor]_vars

\* One module mounted under prefixes and subdomains, given on the module, at
\* registration, or both; with no static path, an explicit one, or one found
\* by the scan of the module's root.
NextMount ==
    \/ \E url_prefix \in {None, <<>>, <<"/", "x">>},
          static_path \in {None, <<"static">>, <<"pub", "/", "assets">>},
          subdomain \in {None, <<"s">>},
          env \in {<<(<<"/", "app">>), TRUE>>,
                   <<(<<"/", "app", "/", "sub">>), TRUE>>,
                   <<(<<"/", "app", "/", "sub">>), FALSE>>} :
          NewModule("m1", <<"p", ".", "a">>, None, url_prefix, static_path,
                    subdomain, env[1], env[2])
    \/ \E options \in {{}, {<<"subdomain", <<"t">>>>}} :
          add_url_rule("m1", <<"/", "i">>, <<"e">>, index1, options)
    \/ \E options \in RegisterOptions :
          register_module("app1", "m1", options)

SpecMount == Init /\ [][NextMount]_vars

\* One module registered more than once, on one application or on two, each
\* registration with keyword arguments of its own.
NextRemount ==
    \/ \E url_prefix \in {None, <<"/", "x">>}, subdomain \in {None, <<"s">>} :
          NewModule("m1", <<"p", ".", "a">>, None, url_prefix, None,
                    subdomain, <<"/", "app", "/", "sub">>, FALSE)
    \/ \E options \in {{}, {<<"subdomain", <<"t">>>>}} :
          add_url_rule("m1", <<"/", "i">>, <<"e">>, index1, options)
    \/ route("m1", <<"/", "r">>, login, {})
    \/ \E a \in AppIds,
          options \in {{}, {<<"subdomain", <<"u">>>>},
                       {<<"url_prefix", <<"/", "y">>>>}} :
          register_module(a, "m1", options)

SpecRemount == Init /\ [][NextRemount]_vars

---------------------------------------------------------------------------
(* Reading the history *)

\* the last call was a registration
Registering == outcome.op = "register_module"
\* the module it registered and the application it registered it on, as the
\* registration left them
RegModule == modules[outcome.mod]
RegApp == apps[outcome.app]
\* the declarations made on that module before the registration
RegDeclared == declared[outcome.mod]

Range(s) == {s[i] : i \in 1..Len(s)}
Min(S) == CHOOSE x \in S : \A y \in S : x <= y
IsSuffix(t, s) ==
    Len(t) <= Len(s) /\ SubSeq(s, Len(s) - Len(t) + 1, Len(s)) = t
IsPrefix(t, s) == Len(t) <= Len(s) /\ SubSeq(s, 1, Len(t)) = t
ListAt(d, k) == IF k \in Keys(d) THEN Get(d, k) ELSE <<>>

IsRuleCall(c) == c.op \in {"route", "add_url_rule"}
HookOps == {"before_request", "before_app_request", "after_request",
            "after_app_request", "context_processor",
            "app_context_processor"}
HookTable(op) ==
    CASE op \in {"before_request", "before_app_request"} ->
             "before_request_funcs"
      [] op \in {"after_request", "after_app_request"} ->
             "after_request_funcs"
      [] op \in {"context_processor", "app_context_processor"} ->
             "template_context_processors"
HookKey(op, name) ==
    IF op \in {"before_request", "after_request", "context_processor"}
    THEN name ELSE None

\* a declaration whose recorded callback raises when replayed: a rule given
\* neither an endpoint nor a view function to name it after
Failing(c) ==
    c.op = "add_url_rule" /\ c.endpoint = None /\ c.view_func = NoneFunc
\* the declarations of D that precede the first failing one (all of D when
\* none fails)
BeforeFailure(D) ==
    LET bad == {i \in 1..Len(D) : Failing(D[i])}
    IN IF bad = {} THEN D ELSE SubSeq(D, 1, Min(bad) - 1)

\* number of static rules the registration of a module adds to app
NStatic(module, app) ==
    IF module.static_path = None
       \/ (module._backwards_compat_static_path
           /\ module.static_path = app.static_path)
    THEN 0 ELSE 1

\* the endpoint a rule declaration asks for, before the module's prefix
DeclaredEndpoint(c) ==
    IF c.op = "route" \/ c.endpoint = None THEN c.view_func.name
    ELSE c.endpoint

\* the prefix and the subdomain a registration resolves: the keyword argument
\* when given, the module's attribute otherwise
ResolvedPrefix ==
    IF "url_prefix" \in Keys(outcome.options)
    THEN Get(outcome.options, "url_prefix") ELSE RegModule.url_prefix
ResolvedSubdomain ==
    IF "subdomain" \in Keys(outcome.options)
    THEN Get(outcome.options, "subdomain") ELSE RegModule.subdomain
\* the prefix as it shows in a URL: nothing when it is None or empty
PrefixText(p) == IF p = None THEN <<>> ELSE p

\* the rules the registration added to the URL map
AddedRules ==
    SubSeq(RegApp.url_map, Len(outcome.before.url_map) + 1,
           Len(RegApp.url_map))
\* those of them registered under the module's static endpoint
AddedStaticRules ==
    SelectSeq(AddedRules,
              LAMBDA r : r.endpoint = RegModule.name \o <<".", "static">>)

\* the last component of a path: its longest suffix holding no "/"
LastComponent(p) ==
    LET K == {k \in 0..Len(p) :
                \A i \in (Len(p) - k + 1)..Len(p) : p[i] # "/"}
        k == CHOOSE x \in K : \A y \in K : y <= x
    IN SubSeq(p, Len(p) - k + 1, Len(p))

\* the functions the calls of D with operation op were given, in order
FuncsOf(D, op) ==
    LET S == SelectSeq(D, LAMBDA c : c.op = op)
    IN [i \in 1..Len(S) |-> S[i].view_func]

\* the hook list the declaration op of a module named name fills, in app
HookList(app, op, name) == ListAt(app[HookTable(op)], HookKey(op, name))

---------------------------------------------------------------------------
(* Claims *)

\* C1: declarations alone change nothing on the host: an application on
\* which no module has been registered yet is exactly as it was constructed,
\* whatever has been declared on the modules.
C1_NoEffectBeforeRegistration ==
    \A a \in AppIds :
        (\A m \in ModIds : a \notin Range(registered[m])) => apps[a] = Flask(a)

\* C1 witness: a module carrying a route and a hook declaration, never
\* registered.
C1_Witness ==
    /\ "m1" \in DOMAIN modules
    /\ registered["m1"] = <<>>
    /\ \E i, j \in 1..Len(declared["m1"]) :
          /\ declared["m1"][i].op = "route"
          /\ declared["m1"][j].op = "before_request"

\* C2: a registration that completes applies the callbacks in declaration
\* order: the URL rules it adds are the declared rules in the order declared
\* (after the module's static rule, if any), every hook list grows by the
\* functions declared for it in the order declared, and of two error handlers
\* declared for one code the later one is the one left installed.
C2_ReplayedInDeclarationOrder ==
    (Registering /\ outcome.raised = "") =>
        LET D == RegDeclared
            R == SelectSeq(D, IsRuleCall)
            n == Len(R)
            U == RegApp.url_map
            E == SelectSeq(D, LAMBDA c : c.op = "app_errorhandler")
        IN /\ Len(U) - Len(outcome.before.url_map) \in {n, n + 1}
           /\ \A i \in 1..n : IsSuffix(R[i].rule, U[Len(U) - n + i].rule)
           /\ \A op \in HookOps :
                 HookList(RegApp, op, RegModule.name) =
                     HookList(outcome.before, op, RegModule.name)
                         \o FuncsOf(D, op)
           /\ \A i \in 1..Len(E) :
                 (\A j \in (i + 1)..Len(E) : E[j].code # E[i].code) =>
                     Get(RegApp.error_handlers, E[i].code) = E[i].view_func

\* C2 witness: a completed registration of a module with two different rules
\* declared, or two different functions declared for one hook list.
C2_Witness ==
    /\ Registering /\ outcome.raised = ""
    /\ Len(RegDeclared) = 2
    /\ \/ /\ RegDeclared[1].op = "route"
          /\ RegDeclared[2].op = "add_url_rule"
          /\ Len(RegApp.url_map) = Len(outcome.before.url_map) + 2
       \/ /\ RegDeclared[1].op = "after_request"
          /\ RegDeclared[2].op = "after_request"
          /\ RegDeclared[1].view_func # RegDeclared[2].view_func

\* C3: every rule a registration adds lands under an endpoint that starts
\* with the module's name and a dot; and for every handler name the module
\* declares and every other module with a different name, the two endpoints
\* "<name>.<handler>" differ, this module's endpoint is in the endpoint
\* table afterwards, and the other module's endpoint, if registered, keeps
\* its view function and its rules.
C3_NoCollisionAcrossModules ==
    (Registering /\ outcome.raised = "") =>
        LET name == RegModule.name
            R == SelectSeq(RegDeclared, IsRuleCall)
            n == Len(R)
            U == RegApp.url_map
            B == outcome.before
            Count(rules, ep) ==
                Cardinality({i \in 1..Len(rules) : rules[i].endpoint = ep})
        IN /\ Len(U) >= Len(B.url_map) + n
           /\ \A i \in 1..n :
                 IsPrefix(name \o <<".">>, U[Len(U) - n + i].endpoint)
           /\ \A o \in DOMAIN modules \ {outcome.mod} :
                 modules[o].name # name =>
                    \A i \in 1..n :
                       LET mine == Dotted(name, R[i].view_func.name)
                           theirs == Dotted(modules[o].name, R[i].view_func.name)
                       IN /\ mine # theirs
                          /\ mine \in Keys(RegApp.view_functions)
                          /\ Count(U, theirs) = Count(B.url_map, theirs)
                          /\ theirs \in Keys(B.view_functions) =>
                                /\ theirs \in Keys(RegApp.view_functions)
                                /\ Get(RegApp.view_functions, theirs)
                                      = Get(B.view_functions, theirs)

\* C3 witness: module "a" and module "b" each declared a handler named
\* index; after both registrations the endpoint table holds both.
C3_Witness ==
    /\ Registering /\ outcome.raised = ""
    /\ outcome.mod = "m2"
    /\ modules["m2"].name = <<"b">>
    /\ <<(<<"a", ".", "index">>), index1>> \in outcome.before.view_functions
    /\ <<(<<"a", ".", "index">>), index1>> \in RegApp.view_functions
    /\ <<(<<"b", ".", "index">>), index2>> \in RegApp.view_functions

\* C4: a registration of a module with a static path (given explicitly, or
\* detected and different from the application's own) adds exactly one rule
\* under the endpoint "<name>.static": its URL is the resolved prefix (nothing
\* when None or empty), "/", the last component of the static path and
\* "/<path:filename>", and its view is the module's send_static_file.  A
\* module with no static path adds no such rule.
C4_StaticRule ==
    (Registering /\ outcome.raised = "") =>
        LET mod == RegModule
            S == AddedStaticRules
        IN /\ (/\ mod.static_path # None
               /\ ~(/\ mod._backwards_compat_static_path
                    /\ mod.static_path = outcome.before.static_path)) =>
                 /\ Len(S) = 1
                 /\ S[1].rule = PrefixText(ResolvedPrefix) \o <<"/">>
                        \o LastComponent(mod.static_path)
                        \o <<"/", "<path:filename>">>
                 /\ <<mod.name \o <<".", "static">>, send_static_file(mod.id)>>
                        \in RegApp.view_functions
           /\ mod.static_path = None => S = <<>>

\* C4 witness: static path 'pub/assets' on the module, prefix '/y' given at
\* registration: the rule is /y/assets/<path:filename>.
C4_Witness ==
    /\ Registering /\ outcome.raised = ""
    /\ RegModule.static_path = <<"pub", "/", "assets">>
    /\ RegModule.url_prefix = <<"/", "x">>
    /\ Len(AddedStaticRules) = 1
    /\ AddedStaticRules[1].rule =
           <<"/", "y", "/", "assets", "/", "<path:filename>">>

\* C5 as stated: the static rule a registration adds carries the subdomain
\* resolved for that registration.
C5_StaticRuleSubdomain ==
    (Registering /\ outcome.raised = "") =>
        \A i \in 1..Len(AddedStaticRules) :
            AddedStaticRules[i].subdomain = ResolvedSubdomain

\* C11 as stated: a rule declared with a subdomain option is registered with
\* that subdomain, and a rule declared without one with the subdomain resolved
\* for the registration that replays it.
C11_RuleSubdomain ==
    Registering =>
        LET R == SelectSeq(BeforeFailure(RegDeclared), IsRuleCall)
            n == Len(R)
            U == RegApp.url_map
        IN /\ Len(U) >= Len(outcome.before.url_map) + n
           /\ \A i \in 1..n :
                 U[Len(U) - n + i].subdomain =
                     IF "subdomain" \in Keys(R[i].options)
                     THEN Get(R[i].options, "subdomain")
                     ELSE ResolvedSubdomain

\* C12 as stated: a registration leaves the module's recorded callbacks as
\* they were, and the rules a second or later registration of the module adds
\* are those its declarations give under that registration's own prefix and
\* subdomain.
C12_ReplayLeavesDeclarations ==
    Registering =>
        /\ RegModule._register_events = outcome.events_before
        /\ Len(registered[outcome.mod]) >= 2 =>
              LET R == SelectSeq(BeforeFailure(RegDeclared), IsRuleCall)
              IN AddedRules =
                   [i \in 1..Len(R) |->
                      [rule |-> PrefixText(ResolvedPrefix) \o R[i].rule,
                       endpoint |-> Dotted(RegModule.name, DeclaredEndpoint(R[i])),
                       subdomain |->
                          IF "subdomain" \in Keys(R[i].options)
                          THEN Get(R[i].options, "subdomain")
                          ELSE ResolvedSubdomain]]

\* C13: in each of the three hook tables of the application, a registration
\* leaves under every key the list that was there followed by the functions
\* declared for that table and key, in declaration order: the module's name
\* for before_request, after_request and context_processor, None for the
\* before_app_request, after_app_request and app_context_processor.  A key is
\* new only if a function was declared for it; no other key or entry changes.
C13_HooksAppended ==
    Registering =>
        LET name == RegModule.name
            P == BeforeFailure(RegDeclared)
            Declared(T, k) ==
                LET S == SelectSeq(P, LAMBDA c : /\ c.op \in HookOps
                                                 /\ HookTable(c.op) = T
                                                 /\ HookKey(c.op, name) = k)
                IN [i \in 1..Len(S) |-> S[i].view_func]
        IN \A T \in {"before_request_funcs", "after_request_funcs",
                      "template_context_processors"} :
              LET old == outcome.before[T]
                  new == RegApp[T]
              IN /\ Keys(new) = Keys(old) \cup
                        {k \in {name, None} : Declared(T, k) # <<>>}
                 /\ Cardinality(new) = Cardinality(Keys(new))
                 /\ \A k \in Keys(new) :
                       Get(new, k) = ListAt(old, k) \o Declared(T, k)

\* C13 witness: a module declaring a context processor of its own and an
\* application-wide one: the first is alone under the module's name, the
\* second follows the application's default processor under None.
C13_Witness ==
    /\ Registering /\ outcome.raised = ""
    /\ RegModule.name = <<"a">>
    /\ ListAt(RegApp.template_context_processors, <<"a">>) = <<index1>>
    /\ ListAt(RegApp.template_context_processors, None) =
           <<Func("_default_template_ctx_processor",
                  <<"_default_template_ctx_processor">>), login>>

\* C14 as stated: a registration leaves the application's static_path and
\* its 'static' view as they were unless it adds the module's static rule with
\* no prefix in its URL and no subdomain; when it changes them, static_path
\* becomes None and the 'static' view the module's send_static_file.
C14_StaticOverride ==
    (Registering /\ outcome.raised = "") =>
        LET S == AddedStaticRules
            bare == /\ Len(S) = 1
                    /\ S[1].subdomain = None
                    /\ S[1].rule = <<"/">> \o LastComponent(RegModule.static_path)
                                      \o <<"/", "<path:filename>">>
            unchanged ==
                /\ RegApp.static_path = outcome.before.static_path
                /\ Get(RegApp.view_functions, <<"static">>) =
                       Get(outcome.before.view_functions, <<"static">>)
        IN /\ ~bare => unchanged
           /\ ~unchanged =>
                 /\ RegApp.static_path = None
                 /\ Get(RegApp.view_functions, <<"static">>) =
                        send_static_file(RegModule.id)

\* C15: the constructor marks a module's static path as detected exactly
\* when no static path was given and <root>/static is a directory, the path
\* then being <root>/static and otherwise the one given.  Registering a
\* module always enters it in the application's modules map; with a detected
\* path equal to the application's static path it adds no static rule and
\* warns of nothing, with any other detected path it emits the deprecation
\* warning and adds the static rule; with a given path, or none, it never
\* warns.
C15_DetectedStaticPath ==
    /\ (outcome.op = "Module" /\ outcome.raised = "") =>
          LET given == Get(outcome.options, "static_path")
              found == Get(outcome.options, "isdir") = <<"True">>
              m == modules[outcome.mod]
          IN /\ m._backwards_compat_static_path <=> (given = None /\ found)
             /\ m.static_path =
                   IF given = None /\ found
                   THEN Get(outcome.options, "root_path") \o <<"/", "static">>
                   ELSE given
    /\ (Registering /\ outcome.raised = "") =>
          LET m == RegModule
          IN /\ <<m.name, m.id>> \in RegApp.modules
             /\ IF ~m._backwards_compat_static_path
                THEN ~outcome.warned
                ELSE IF m.static_path = outcome.before.static_path
                THEN ~outcome.warned /\ AddedStaticRules = <<>>
                ELSE outcome.warned /\ Len(AddedStaticRules) = 1

\* C15 witness: a module whose static folder was detected at the very path of
\* the application's static folder, registered: it is in the modules map, no
\* static rule was added and nothing was warned of.
C15_Witness ==
    /\ Registering /\ outcome.raised = ""
    /\ RegModule._backwards_compat_static_path
    /\ RegModule.static_path = <<"/", "app", "/", "static">>
    /\ outcome.before.static_path = <<"/", "app", "/", "static">>
    /\ ~outcome.warned
    /\ AddedStaticRules = <<>>
    /\ <<(<<"a">>), "m1">> \in RegApp.modules

\* the callback cb is the closure the declaration call recorded
RecordedBy(cb, call) ==
    /\ cb.kind = IF IsRuleCall(call) THEN "register_rule" ELSE call.op
    /\ cb.rule = call.rule
    /\ cb.view_func = call.view_func
    /\ cb.code = call.code
\* the same function object: the closure's kind and what it captured, its
\* options dict apart, whose content a replay may change
SameCallback(c, d) ==
    /\ c.kind = d.kind /\ c.rule = d.rule /\ c.endpoint = d.endpoint
    /\ c.view_func = d.view_func /\ c.code = d.code

\* C16, in every state: the callback list of every module starts with the
\* module's self-registration callback, followed by one callback per
\* declaration made, in the order made; and a registration, completed or
\* not, has entered the module in the application's modules map.
C16_Shape ==
    /\ \A m \in DOMAIN modules :
          LET E == modules[m]._register_events
              D == declared[m]
          IN /\ Len(E) = 1 + Len(D)
             /\ E[1].kind = "_register"
             /\ \A i \in 1..Len(D) : RecordedBy(E[i + 1], D[i])
    /\ Registering => <<RegModule.name, RegModule.id>> \in RegApp.modules

\* C16, in every step: a module stays, its callback list keeps every callback
\* in its place and gets at most one more, at the end; a declaration adds
\* exactly one and a registration none.
C16_Step ==
    \A m \in DOMAIN modules :
        /\ m \in DOMAIN modules'
        /\ LET E == modules[m]._register_events
               F == modules'[m]._register_events
           IN /\ Len(F) \in {Len(E), Len(E) + 1}
              /\ \A i \in 1..Len(E) : SameCallback(F[i], E[i])
              /\ (outcome'.mod = m /\ outcome'.op \notin {"Module", "register_module"})
                    => Len(F) = Len(E) + 1
              /\ outcome'.op = "register_module" => Len(F) = Len(E)

\* C16: the callback list of a module is never empty, starts with the
\* self-registration callback, only grows, by one callback per declaration,
\* and so holds one callback more than declarations were made; a
\* registration enters the module in app.modules before anything else.
C16_CallbackList == []C16_Shape /\ [][C16_Step]_vars

\* C16 witness: a registration stopped by the first declared callback: the
\* module is in the modules map, which was empty, and nothing else of the
\* application changed; the list still holds its three callbacks.
C16_Witness ==
    /\ Registering /\ outcome.raised # ""
    /\ Len(RegDeclared) = 2
    /\ Failing(RegDeclared[1])
    /\ Len(RegModule._register_events) = 3
    /\ RegModule._register_events[1].kind = "_register"
    /\ outcome.before.modules = {}
    /\ RegApp = [outcome.before EXCEPT
                    !.modules = {<<RegModule.name, RegModule.id>>}]

\* C6: Module(import_name, name) raises, and leaves no module behind, exactly
\* when no name is given and the import name holds no "."; otherwise the
\* module exists with its one initial callback, named by the explicit name
\* when given, and else by what follows the last "." of the import name.
C6_ConstructionAndName ==
    outcome.op = "Module" =>
        LET imp == Get(outcome.options, "import_name")
            nm == Get(outcome.options, "name")
            m == outcome.mod
        IN IF nm = None /\ (\A i \in 1..Len(imp) : imp[i] # ".")
           THEN outcome.raised # "" /\ m \notin DOMAIN modules
           ELSE /\ outcome.raised = ""
                /\ m \in DOMAIN modules
                /\ Len(modules[m]._register_events) = 1
                /\ IF nm = None
                   THEN /\ IsSuffix(<<".">> \o modules[m].name, imp)
                        /\ \A i \in 1..Len(modules[m].name) :
                              modules[m].name[i] # "."
                   ELSE modules[m].name = nm

\* C6 witness: a module constructed from a twice-dotted import name and no
\* explicit name.
C6_Witness ==
    /\ outcome.op = "Module" /\ outcome.raised = ""
    /\ Get(outcome.options, "import_name") = <<"p", ".", "q", ".", "a">>
    /\ Get(outcome.options, "name") = None
    /\ modules[outcome.mod].name = <<"a">>

\* C7 as stated: a module is consumed by its first registration, so a later
\* registration of the same module applies nothing to the application.
C7_ConsumedOnce ==
    (Registering /\ Len(registered[outcome.mod]) >= 2) =>
        RegApp = outcome.before

\* C7 amended: registration discards nothing.  The callback list keeps one
\* callback per declaration besides the module's own, and a later
\* registration that completes applies every callback again: one URL rule per
\* declared rule, one hook-list entry per declared hook, the module entered
\* in the modules map.
C7_ReplayedOnEveryRegistration ==
    (Registering /\ Len(registered[outcome.mod]) >= 2 /\ outcome.raised = "") =>
        LET D == RegDeclared
        IN /\ Len(RegModule._register_events) = 1 + Len(D)
           /\ Len(outcome.events_before) = 1 + Len(D)
           /\ Len(RegApp.url_map) =
                  Len(outcome.before.url_map) + Len(SelectSeq(D, IsRuleCall))
                      + NStatic(RegModule, outcome.before)
           /\ \A op \in HookOps :
                 Len(HookList(RegApp, op, RegModule.name)) =
                     Len(HookList(outcome.before, op, RegModule.name))
                         + Len(FuncsOf(D, op))
           /\ <<RegModule.name, RegModule.id>> \in RegApp.modules

\* C7 witness: the second registration of a module on the same application
\* adds the rules the first one had added already.
C7_Witness ==
    /\ Registering /\ outcome.raised = ""
    /\ registered[outcome.mod] = <<"app1", "app1">>
    /\ Len(outcome.before.url_map) > 1
    /\ Len(RegApp.url_map) > Len(outcome.before.url_map)

\* C8: a registration raises exactly when one of the recorded callbacks
\* raises; what it then leaves on the application is the effect of the
\* callbacks declared before the failing one, in order, and nothing of those
\* declared after it.
C8_RaiseAbortsReplay ==
    Registering =>
        LET D == RegDeclared
            P == BeforeFailure(D)
            R == SelectSeq(P, IsRuleCall)
            n == Len(R)
            U == RegApp.url_map
            E == SelectSeq(P, LAMBDA c : c.op = "app_errorhandler")
        IN /\ (outcome.raised # "") <=> (\E i \in 1..Len(D) : Failing(D[i]))
           /\ (outcome.raised # "") =>
                 /\ <<RegModule.name, RegModule.id>> \in RegApp.modules
                 /\ Len(U) = Len(outcome.before.url_map) + n
                                + NStatic(RegModule, outcome.before)
                 /\ \A i \in 1..n :
                       IsSuffix(R[i].rule, U[Len(U) - n + i].rule)
                 /\ \A op \in HookOps :
                       HookList(RegApp, op, RegModule.name) =
                           HookList(outcome.before, op, RegModule.name)
                               \o FuncsOf(P, op)
                 /\ IF E = <<>>
                    THEN RegApp.error_handlers = outcome.before.error_handlers
                    ELSE Get(RegApp.error_handlers, E[Len(E)].code)
                             = E[Len(E)].view_func

\* C8 witness: a registration that raised at the first declared callback,
\* with a rule declared after it that was not added.
C8_Witness ==
    /\ Registering /\ outcome.raised # ""
    /\ Len(RegDeclared) = 2
    /\ Failing(RegDeclared[1])
    /\ RegDeclared[2].op = "route"
    /\ RegApp.url_map = outcome.before.url_map

\* C9: the endpoint of every rule a registration adds is the module's name,
\* a dot, and the endpoint asked for: the decorated function's name for
\* route, the explicit endpoint for add_url_rule when given, the view
\* function's name otherwise; the view function is stored under it.
C9_EndpointNaming ==
    Registering =>
        LET R == SelectSeq(BeforeFailure(RegDeclared), IsRuleCall)
            n == Len(R)
            U == RegApp.url_map
        IN /\ Len(U) >= Len(outcome.before.url_map) + n
           /\ \A i \in 1..n :
                 LET ep == Dotted(RegModule.name, DeclaredEndpoint(R[i]))
                 IN /\ U[Len(U) - n + i].endpoint = ep
                    /\ (/\ R[i].view_func # NoneFunc
                        /\ \A j \in (i + 1)..n :
                              \/ DeclaredEndpoint(R[j]) # DeclaredEndpoint(R[i])
                              \/ R[j].view_func = NoneFunc)
                       => Get(RegApp.view_functions, ep) = R[i].view_func

\* C9 witness: a completed registration of a rule declared without an
\* endpoint and of a rule declared with one.
C9_Witness ==
    /\ Registering /\ outcome.raised = ""
    /\ Len(RegDeclared) = 2
    /\ RegDeclared[1].op = "add_url_rule"
    /\ RegDeclared[1].endpoint = None
    /\ RegDeclared[2].op = "add_url_rule"
    /\ RegDeclared[2].endpoint = <<"e">>
    /\ RegDeclared[2].view_func = index1
    /\ RegApp.url_map[Len(RegApp.url_map)].endpoint = <<"a", ".", "e">>
    /\ RegApp.url_map[Len(RegApp.url_map) - 1].endpoint = <<"a", ".", "index">>

\* C10: the URL of every rule a registration adds for a declared rule is the
\* resolved prefix followed by the rule as declared, and the rule as declared
\* when the resolved prefix is None or empty.
C10_RulePrefixed ==
    Registering =>
        LET R == SelectSeq(BeforeFailure(RegDeclared), IsRuleCall)
            n == Len(R)
            U == RegApp.url_map
        IN /\ Len(U) >= Len(outcome.before.url_map) + n
           /\ \A i \in 1..n :
                 U[Len(U) - n + i].rule =
                     PrefixText(ResolvedPrefix) \o R[i].rule

\* C10 witness: a module with prefix '/x' registered with url_prefix='/y':
\* the rule '/i' is registered as '/y/i'.
C10_Witness ==
    /\ Registering /\ outcome.raised = ""
    /\ RegModule.url_prefix = <<"/", "x">>
    /\ ResolvedPrefix = <<"/", "y">>
    /\ Len(RegDeclared) >= 1
    /\ RegApp.url_map[Len(RegApp.url_map)].rule = <<"/", "y", "/", "i">>

====
